---- MODULE Spec2Model ----
(***************************************************************************)
(* The detection-and-decision pipeline of the AI intrusion detection       *)
(* system: AnomalyDetector (models/anomaly_detection.py),                  *)
(* DeepAttackClassifier and ExplainabilityEngine (models/deep_learning.py) *)
(* and MultiAgentSystem (agents/multi_agent_system.py).                    *)
(*                                                                         *)
(* Numbers.  Scores, statistics, weights and confidences are kept on a     *)
(* grid of hundredths: the integer k stands for a real in                  *)
(* [k/100, (k+1)/100).  The code's guard constant 1e-8 is far below the    *)
(* grid, so it is modelled as a positive infinitesimal: see DivEps and the *)
(* raw-score records [inf, v], where inf = TRUE stands for v/1e-8.         *)
(***************************************************************************)
EXTENDS Integers, Sequences, FiniteSets, TLC

VARIABLES
    isolation_forest,   \* AnomalyDetector.isolation_forest
    baseline_stats,     \* AnomalyDetector.baseline_stats
    trained,            \* AnomalyDetector.trained
    ens,                \* outcome of the last ensemble_detection call since the last fit call
    prev,               \* outcome of the ensemble_detection call before that one
    det,                \* outcome of the last detect_statistical / detect_mad call since the last fit call
    scan,               \* the baseline detectors of a call running in a second thread
    sev,                \* outcomes of the last two classify_anomaly calls
    cls,                \* outcome of the last DeepAttackClassifier.classify call
    expl,               \* outcome of the last ExplainabilityEngine.explain_alert call
    resp,               \* outcome of the last direct ResponseAgent.generate_response call
    message_queue,      \* MultiAgentSystem.message_queue
    status,             \* SecurityAgent.status of the five agents
    pc,                 \* position of process_threat
    run,                \* locals of the process_threat call in progress
    invoked,            \* agents whose stage method ran in the current call
    result,             \* value returned by the last finished process_threat
    runs                \* number of process_threat calls started

vars == <<isolation_forest, baseline_stats, trained, ens, prev, det, scan, sev, cls,
          expl, resp, message_queue, status, pc, run, invoked, result, runs>>

detectorVars == <<isolation_forest, baseline_stats, trained, ens, prev, det, scan>>
callVars == <<expl, resp>>
pipelineVars == <<message_queue, status, pc, run, invoked, result, runs>>

----------------------------------------------------------------------------
(* Bounds of the model *)

\* longest batch (training or scoring) handed to the AnomalyDetector
MaxBatch == 2

----------------------------------------------------------------------------
(* Arithmetic on the grid *)

SCALE == 10 * 10

Abs(x) == IF x < 0 THEN -x ELSE x

Min2(a, b) == IF a < b THEN a ELSE b

Max2(a, b) == IF a > b THEN a ELSE b

\* np.clip(x, 0, 1)
Clip01(x) == Min2(SCALE, Max2(0, x))

RECURSIVE SumSeq(_)
SumSeq(s) == IF s = <<>> THEN 0 ELSE Head(s) + SumSeq(Tail(s))

\* largest r in lo..hi with r*r <= v
RECURSIVE IsqrtIn(_, _, _)
IsqrtIn(v, lo, hi) ==
    IF lo >= hi THEN lo
    ELSE LET mid == (lo + hi + 1) \div 2
         IN IF mid * mid <= v THEN IsqrtIn(v, mid, hi) ELSE IsqrtIn(v, lo, mid - 1)

\* np.sqrt on the grid: the largest r with r*r <= v
Isqrt(v) == IsqrtIn(v, 0, 10 * SCALE)

\* a / (b + 1e-8) on the grid, for a >= 0 and b > 0 in the same unit:
\* the quotient lies just below a/b, so an exact quotient falls in the cell below it.
DivEps(a, b) == IF a = 0 THEN 0 ELSE (SCALE * a - 1) \div b

----------------------------------------------------------------------------
(* Samples and batches: two numeric features per sample *)

FeatureIdx == {1, 2}

Samples == {<<0, 0>>, <<0, 4>>, <<4, 4>>}

Batches == UNION {[1..k -> Samples] : k \in 0..MaxBatch}

\* training batches of the outlier model, whose fit the model follows only
\* as far as it succeeds (some samples) or raises (no samples)
ForestBatches == {X \in Batches : Len(X) <= 1}

Column(X, f) == [i \in 1..Len(X) |-> SCALE * X[i][f]]

----------------------------------------------------------------------------
(* numpy reductions used by fit_statistical_baseline *)

\* np.mean(X, axis=0), one column
Mean(col) == SumSeq(col) \div Len(col)

\* np.std(X, axis=0), one column
Std(col) ==
    LET m == Mean(col)
        sq == [i \in 1..Len(col) |-> (col[i] - m) * (col[i] - m)]
    IN Isqrt(SumSeq(sq) \div Len(col))

\* np.median(X, axis=0), one column
Median(col) ==
    LET s == SortSeq(col, <)
        n == Len(col)
    IN IF n % 2 = 1 THEN s[(n + 1) \div 2]
       ELSE (s[n \div 2] + s[n \div 2 + 1]) \div 2

SeqMin(col) == CHOOSE x \in {col[i] : i \in 1..Len(col)} :
                   \A j \in 1..Len(col) : x <= col[j]

SeqMax(col) == CHOOSE x \in {col[i] : i \in 1..Len(col)} :
                   \A j \in 1..Len(col) : x >= col[j]

_median_absolute_deviation(col) ==
    LET median == Median(col)
        abs_dev == [i \in 1..Len(col) |-> Abs(col[i] - median)]
    IN Median(abs_dev)

----------------------------------------------------------------------------
(* AnomalyDetector state *)

NoStats == [k \in {} |-> <<>>]

StatsOf(X) ==
    [mean   |-> [f \in FeatureIdx |-> Mean(Column(X, f))],
     std    |-> [f \in FeatureIdx |-> Std(Column(X, f))],
     min    |-> [f \in FeatureIdx |-> SeqMin(Column(X, f))],
     max    |-> [f \in FeatureIdx |-> SeqMax(Column(X, f))],
     median |-> [f \in FeatureIdx |-> Median(Column(X, f))],
     mad    |-> [f \in FeatureIdx |-> _median_absolute_deviation(Column(X, f))]]

\* The outlier model is a black box to the detector.  A fitted model is a
\* deterministic score function; -score_samples of an isolation forest lies
\* in (0, 1].  Two functions stand for the models a fit can produce.
ScoreTables ==
    {[s \in Samples |-> 45],
     [s \in Samples |-> IF s = <<4, 4>> THEN 70 ELSE 40]}

NoTable == [s \in Samples |-> 0]

NoForest == [kind |-> "None", table |-> NoTable]

UnfittedForest == [kind |-> "Unfitted", table |-> NoTable]

FittedForest(t) == [kind |-> "Fitted", table |-> t]

NoCall == [called |-> FALSE, X |-> <<>>, weights |-> [m \in {} |-> 0], raised |-> FALSE,
           ensemble_scores |-> <<>>, method_scores |-> [m \in {} |-> <<>>]]

NoDetect == [called |-> FALSE, method |-> "", X |-> <<>>, raised |-> FALSE, scores |-> <<>>]

NoScan == [pc |-> "idle", X |-> <<>>, seen_mean |-> NoStats, seen_std |-> NoStats,
           seen_mad |-> NoStats, stat_scores |-> <<>>, mad_scores |-> <<>>]

----------------------------------------------------------------------------
(* Detector outputs.  A raw score is [inf, v]: v on the grid when inf is    *)
(* FALSE, and v / 1e-8 (a deviation divided by the guard constant alone,   *)
(* as happens for a feature of zero spread) when inf is TRUE.              *)

Methods == {"isolation_forest", "statistical", "mad"}

MethodOrder == <<"isolation_forest", "statistical", "mad">>

RawZero == [inf |-> FALSE, v |-> 0]

\* variant: the spread is the divisor, without the guard constant; v = -1
\* stands for the nan or inf numpy yields for a zero divisor
RawScore_NoGuard(dev, spread) ==
    IF spread = 0 THEN [inf |-> TRUE, v |-> -1]
    ELSE IF dev = 0 THEN RawZero
    ELSE [inf |-> FALSE, v |-> (SCALE * dev) \div spread]

\* |x - center| / (spread + 1e-8)
RawScore(dev, spread) ==
    IF dev = 0 THEN RawZero
    ELSE IF spread = 0 THEN [inf |-> TRUE, v |-> dev]
    ELSE [inf |-> FALSE, v |-> DivEps(dev, spread)]

RawLess(a, b) == (~a.inf /\ b.inf) \/ (a.inf = b.inf /\ a.v < b.v)

\* np.max over a non-empty collection of raw scores
RawMax(S) == CHOOSE m \in S : \A r \in S : ~RawLess(m, r)

detect_isolation_forest(forest, X) ==
    IF forest.kind = "None" THEN <<>>
    ELSE IF forest.kind = "Unfitted" \/ Len(X) = 0
         THEN <<>>      \* predict raised (not fitted / no samples): except branch
         ELSE [i \in 1..Len(X) |-> [inf |-> FALSE, v |-> forest.table[X[i]]]]

\* variant: with no baseline, a zero score for every sample
detect_statistical_ZeroScores(stats, X) ==
    IF DOMAIN stats = {} THEN [i \in 1..Len(X) |-> RawZero]
    ELSE LET mean == stats["mean"]
             std == stats["std"]
             z_scores(i) == {RawScore(Abs(SCALE * X[i][f] - mean[f]), std[f]) : f \in FeatureIdx}
         IN [i \in 1..Len(X) |-> RawMax(z_scores(i))]

\* AnomalyDetector.detect_statistical
detect_statistical(stats, X) ==
    IF DOMAIN stats = {} THEN <<>>
    ELSE LET mean == stats["mean"]
             std == stats["std"]
             z_scores(i) == {RawScore(Abs(SCALE * X[i][f] - mean[f]), std[f]) : f \in FeatureIdx}
         IN [i \in 1..Len(X) |-> RawMax(z_scores(i))]

detect_mad(stats, X) ==
    IF DOMAIN stats = {} THEN <<>>
    ELSE LET median == stats["median"]
             mad == stats["mad"]
             mad_scores(i) == {RawScore(Abs(SCALE * X[i][f] - median[f]), mad[f]) : f \in FeatureIdx}
         IN [i \in 1..Len(X) |-> RawMax(mad_scores(i))]

\* variant: the scores divided by the fixed cutoff 3.0 of the detectors, not
\* by the largest score of the batch
Normalized_FixedCutoff(scores) ==
    [i \in 1..Len(scores) |-> IF scores[i].inf THEN SCALE ELSE Clip01(scores[i].v \div 3)]

\* np.clip(scores / np.max(scores + 1e-8), 0, 1) for a non-empty score array
Normalized(scores) ==
    LET m == RawMax({scores[i] : i \in 1..Len(scores)})
        ratio(r) == IF r.inf # m.inf THEN 0 ELSE DivEps(r.v, m.v)
    IN [i \in 1..Len(scores) |-> Clip01(ratio(scores[i]))]

DefaultWeights == [isolation_forest |-> 40, statistical |-> 30, mad |-> 30]

\* weights.get(method, 0)
WeightOf(weights, method) == IF method \in DOMAIN weights THEN weights[method] ELSE 0

\* caller-supplied weight maps: the default (weights=None), a map that leaves
\* out a method, a map of one method, and a map of zeros
WeightMaps ==
    {DefaultWeights,
     [statistical |-> 50, mad |-> 50],
     [isolation_forest |-> 100],
     [isolation_forest |-> 0, statistical |-> 0, mad |-> 0]}

RECURSIVE WeightedSum(_, _, _, _)
WeightedSum(order, method_scores, weights, i) ==
    IF order = <<>> THEN 0
    ELSE (IF Head(order) \in DOMAIN method_scores
          THEN WeightOf(weights, Head(order)) * method_scores[Head(order)][i]
          ELSE 0)
         + WeightedSum(Tail(order), method_scores, weights, i)

RECURSIVE TotalWeight(_, _, _)
TotalWeight(order, method_scores, weights) ==
    IF order = <<>> THEN 0
    ELSE (IF Head(order) \in DOMAIN method_scores
          THEN WeightOf(weights, Head(order)) ELSE 0)
         + TotalWeight(Tail(order), method_scores, weights)

\* AnomalyDetector.ensemble_detection: the record of one call
ensemble_detection(forest, stats, X, weights) ==
    LET if_scores == detect_isolation_forest(forest, X)
        stat_scores == detect_statistical(stats, X)
        mad_scores == detect_mad(stats, X)
        useIF == forest.kind # "None"
        present == (IF useIF THEN {"isolation_forest"} ELSE {})
                   \cup (IF Len(stat_scores) > 0 THEN {"statistical"} ELSE {})
                   \cup (IF Len(mad_scores) > 0 THEN {"mad"} ELSE {})
        method_scores ==
            [m \in present |->
                IF m = "isolation_forest" THEN Normalized(if_scores)
                ELSE IF m = "statistical" THEN Normalized(stat_scores)
                ELSE Normalized(mad_scores)]
        total_weight == TotalWeight(MethodOrder, method_scores, weights)
        sums == [i \in 1..Len(X) |-> WeightedSum(MethodOrder, method_scores, weights, i)]
    IN IF useIF /\ Len(if_scores) = 0
       THEN \* line 197: np.max of an empty array raises ValueError
            [called |-> TRUE, X |-> X, weights |-> weights, raised |-> TRUE,
             ensemble_scores |-> <<>>, method_scores |-> [m \in {} |-> <<>>]]
       ELSE [called |-> TRUE, X |-> X, weights |-> weights, raised |-> FALSE,
             ensemble_scores |->
                 [i \in 1..Len(X) |->
                     IF total_weight > 0 THEN sums[i] \div total_weight ELSE sums[i]],
             method_scores |-> method_scores]

critical_threshold == 90

warning_threshold == 70

\* variant: the warning test made before the critical test
classify_anomaly_WarningFirst(anomaly_score, critical, warning) ==
    IF anomaly_score >= warning
    THEN [severity |-> "WARNING", label |-> "Suspicious behavior detected", score |-> anomaly_score]
    ELSE IF anomaly_score >= critical
    THEN [severity |-> "CRITICAL", label |-> "Critical anomaly detected", score |-> anomaly_score]
    ELSE [severity |-> "NORMAL", label |-> "Normal behavior", score |-> anomaly_score]

\* variant: a score equal to the critical threshold is not critical
classify_anomaly_StrictCritical(anomaly_score, critical, warning) ==
    IF anomaly_score > critical
    THEN [severity |-> "CRITICAL", label |-> "Critical anomaly detected", score |-> anomaly_score]
    ELSE IF anomaly_score >= warning
    THEN [severity |-> "WARNING", label |-> "Suspicious behavior detected", score |-> anomaly_score]
    ELSE [severity |-> "NORMAL", label |-> "Normal behavior", score |-> anomaly_score]

\* AnomalyDetector.classify_anomaly
classify_anomaly(anomaly_score, critical, warning) ==
    IF anomaly_score >= critical
    THEN [severity |-> "CRITICAL", label |-> "Critical anomaly detected", score |-> anomaly_score]
    ELSE IF anomaly_score >= warning
    THEN [severity |-> "WARNING", label |-> "Suspicious behavior detected", score |-> anomaly_score]
    ELSE [severity |-> "NORMAL", label |-> "Normal behavior", score |-> anomaly_score]

----------------------------------------------------------------------------
(* AnomalyDetector operations *)

\* fit_isolation_forest(X); sklearn is the library the import at line 47 needs
FitIsolationForest(X, sklearn) ==
    /\ IF ~sklearn
       THEN UNCHANGED <<isolation_forest, trained>>          \* ImportError
       ELSE IF Len(X) = 0
       THEN /\ isolation_forest' = UnfittedForest            \* fit raised after line 49
            /\ UNCHANGED trained
       ELSE /\ \E t \in ScoreTables : isolation_forest' = FittedForest(t)
            /\ trained' = TRUE
    /\ ens' = NoCall
    /\ prev' = NoCall
    /\ det' = NoDetect
    /\ UNCHANGED <<baseline_stats, scan, sev, cls, callVars, pipelineVars>>

\* fit_statistical_baseline(X)
FitStatisticalBaseline(X) ==
    /\ IF Len(X) = 0
       THEN UNCHANGED baseline_stats        \* np.min of no samples raises: except branch
       ELSE baseline_stats' = StatsOf(X)
    /\ ens' = NoCall
    /\ prev' = NoCall
    /\ det' = NoDetect
    /\ UNCHANGED <<isolation_forest, trained, scan, sev, cls, callVars, pipelineVars>>

\* variant: the call also relearns the baseline from the batch it scores
EnsembleDetection_Relearn(X, weights) ==
    /\ ens' = ensemble_detection(isolation_forest, baseline_stats, X, weights)
    /\ prev' = ens
    /\ baseline_stats' = IF Len(X) = 0 THEN baseline_stats ELSE StatsOf(X)
    /\ UNCHANGED <<isolation_forest, trained, det, scan, sev, cls, callVars,
                   pipelineVars>>

\* ensemble_detection(X, weights); the method assigns to no attribute of self
EnsembleDetection(X, weights) ==
    /\ ens' = ensemble_detection(isolation_forest, baseline_stats, X, weights)
    /\ prev' = ens
    /\ UNCHANGED <<isolation_forest, baseline_stats, trained, det, scan, sev, cls, callVars,
                   pipelineVars>>

\* detect_statistical(X) called directly; every exception is caught inside
DetectStatistical(X) ==
    /\ det' = [called |-> TRUE, method |-> "statistical", X |-> X, raised |-> FALSE,
               scores |-> detect_statistical(baseline_stats, X)]
    /\ UNCHANGED <<isolation_forest, baseline_stats, trained, ens, prev, scan, sev, cls,
                   callVars, pipelineVars>>

\* detect_mad(X) called directly; every exception is caught inside
DetectMad(X) ==
    /\ det' = [called |-> TRUE, method |-> "mad", X |-> X, raised |-> FALSE,
               scores |-> detect_mad(baseline_stats, X)]
    /\ UNCHANGED <<isolation_forest, baseline_stats, trained, ens, prev, scan, sev, cls,
                   callVars, pipelineVars>>

\* classify_anomaly(anomaly_score, critical_threshold, warning_threshold);
\* the outcomes of the last two calls are kept, newest first
ClassifyAnomaly(anomaly_score, critical, warning) ==
    /\ Len(sev) < 2
    /\ sev' = <<[anomaly_score |-> anomaly_score, critical |-> critical, warning |-> warning,
                 out |-> classify_anomaly(anomaly_score, critical, warning)]>> \o sev
    /\ UNCHANGED <<detectorVars, cls, callVars, pipelineVars>>

----------------------------------------------------------------------------
(* The two baseline detectors of an ensemble_detection call run by a second  *)
(* thread (lines 200 and 205), detect_statistical statement by statement.    *)
(* The class holds no lock, and each statement that mentions                 *)
(* self.baseline_stats loads the attribute anew, so a                        *)
(* fit_statistical_baseline of another thread can replace the dictionary     *)
(* between two of them.  The outlier part of the call does not read the      *)
(* baseline and is left out.                                                 *)

\* batches scored by the second thread
ScanBatches == {X \in Batches : Len(X) = 1}

\* line 200 calls detect_statistical; line 121: if not self.baseline_stats
ScanEnter(X) ==
    /\ scan.pc = "idle"
    /\ scan' = IF baseline_stats = NoStats
               THEN [NoScan EXCEPT !.pc = "mad", !.X = X]
               ELSE [NoScan EXCEPT !.pc = "mean", !.X = X]
    /\ UNCHANGED <<isolation_forest, baseline_stats, trained, ens, prev, det, sev, cls,
                   callVars, pipelineVars>>

\* line 126: mean = self.baseline_stats['mean']
ScanReadMean ==
    /\ scan.pc = "mean"
    /\ scan' = [scan EXCEPT !.pc = "std", !.seen_mean = baseline_stats]
    /\ UNCHANGED <<isolation_forest, baseline_stats, trained, ens, prev, det, sev, cls,
                   callVars, pipelineVars>>

\* line 127: std = self.baseline_stats['std']
ScanReadStd ==
    /\ scan.pc = "std"
    /\ scan' = [scan EXCEPT !.pc = "scores", !.seen_std = baseline_stats]
    /\ UNCHANGED <<isolation_forest, baseline_stats, trained, ens, prev, det, sev, cls,
                   callVars, pipelineVars>>

\* lines 130-135: the scores, from the two locals
ScanScores ==
    /\ scan.pc = "scores"
    /\ scan' = [scan EXCEPT
                   !.pc = "mad",
                   !.stat_scores = detect_statistical([mean |-> scan.seen_mean["mean"],
                                                       std |-> scan.seen_std["std"]], scan.X)]
    /\ UNCHANGED <<isolation_forest, baseline_stats, trained, ens, prev, det, sev, cls,
                   callVars, pipelineVars>>

\* line 205: mad_scores = self.detect_mad(X), taken as one step
ScanMad ==
    /\ scan.pc = "mad"
    /\ scan' = [scan EXCEPT !.pc = "done", !.seen_mad = baseline_stats,
                            !.mad_scores = detect_mad(baseline_stats, scan.X)]
    /\ UNCHANGED <<isolation_forest, baseline_stats, trained, ens, prev, det, sev, cls,
                   callVars, pipelineVars>>

\* the call has returned; the thread may call again
ScanReturn ==
    /\ scan.pc = "done"
    /\ scan' = NoScan
    /\ UNCHANGED <<isolation_forest, baseline_stats, trained, ens, prev, det, sev, cls,
                   callVars, pipelineVars>>

----------------------------------------------------------------------------
(* DeepAttackClassifier *)

\* most features a modelled feature vector holds (scenario vectors aside)
MaxPresent == 1

FeatureNames ==
    {"unique_dst_ports", "packet_rate", "syn_count", "failed_login_count",
     "warning_ratio", "sql_injection_count", "suspicious_command_count",
     "packet_count", "avg_payload_size", "unique_dst_ips", "port_scan_count",
     "privilege_escalation_count", "access_violation_count", "critical_ratio"}

\* self.attack_signatures, in insertion order
attack_signatures ==
    <<[name |-> "Port Scan",
       rules |-> <<<<"unique_dst_ports", "high">>, <<"packet_rate", "high">>,
                   <<"syn_count", "high">>>>],
      [name |-> "Brute Force",
       rules |-> <<<<"failed_login_count", "high">>, <<"warning_ratio", "high">>>>],
      [name |-> "SQL Injection",
       rules |-> <<<<"sql_injection_count", "high">>,
                   <<"suspicious_command_count", "high">>>>],
      [name |-> "DoS Attack",
       rules |-> <<<<"packet_rate", "very_high">>, <<"packet_count", "very_high">>>>],
      [name |-> "Data Exfiltration",
       rules |-> <<<<"avg_payload_size", "high">>, <<"unique_dst_ips", "high">>>>],
      [name |-> "Malware Traffic",
       rules |-> <<<<"port_scan_count", "high">>,
                   <<"privilege_escalation_count", "high">>>>],
      [name |-> "Privilege Escalation",
       rules |-> <<<<"privilege_escalation_count", "high">>,
                   <<"access_violation_count", "high">>>>],
      [name |-> "Normal Traffic",
       rules |-> <<<<"critical_ratio", "low">>, <<"warning_ratio", "low">>>>]>>

\* get_attack_types()
AttackTypes == {attack_signatures[k].name : k \in 1..Len(attack_signatures)}

\* variant: a value equal to a cutoff matches
RECURSIVE MatchTally_Inclusive(_, _, _)
MatchTally_Inclusive(features, rules, acc) ==
    IF rules = <<>> THEN acc
    ELSE LET feature_name == Head(rules)[1]
             threshold_level == Head(rules)[2]
             value == features[feature_name]
             hit(points) == [score |-> acc.score + points, matches |-> acc.matches + 1]
             next ==
                 IF feature_name \notin DOMAIN features THEN acc
                 ELSE IF threshold_level = "high"
                      THEN (IF value >= 50 THEN hit(20) ELSE acc)
                 ELSE IF threshold_level = "very_high"
                      THEN (IF value >= 80 THEN hit(30) ELSE acc)
                 ELSE IF threshold_level = "low"
                      THEN (IF value <= 20 THEN hit(20) ELSE acc)
                 ELSE acc
         IN MatchTally_Inclusive(features, Tail(rules), next)

\* The loop of _calculate_match_score over signatures.items(): the running
\* (score, matches) pair after the rules of `rules`, started from `acc`.
RECURSIVE MatchTally(_, _, _)
MatchTally(features, rules, acc) ==
    IF rules = <<>> THEN acc
    ELSE LET feature_name == Head(rules)[1]
             threshold_level == Head(rules)[2]
             value == features[feature_name]
             hit(points) == [score |-> acc.score + points, matches |-> acc.matches + 1]
             next ==
                 IF feature_name \notin DOMAIN features THEN acc
                 ELSE IF threshold_level = "high"
                      THEN (IF value > 50 THEN hit(20) ELSE acc)
                 ELSE IF threshold_level = "very_high"
                      THEN (IF value > 80 THEN hit(30) ELSE acc)
                 ELSE IF threshold_level = "low"
                      THEN (IF value < 20 THEN hit(20) ELSE acc)
                 ELSE acc
         IN MatchTally(features, Tail(rules), next)

\* variant: the bonus for multiple matches left out
_calculate_match_score_NoBonus(features, rules) ==
    MatchTally(features, rules, [score |-> 0, matches |-> 0]).score

\* variant: a bonus of 0.2 for each match
_calculate_match_score_DoubleBonus(features, rules) ==
    LET t == MatchTally(features, rules, [score |-> 0, matches |-> 0])
    IN IF t.matches > 0 THEN (t.score * (10 + 2 * t.matches)) \div 10 ELSE t.score

\* DeepAttackClassifier._calculate_match_score; score *= (1 + matches * 0.1)
_calculate_match_score(features, rules) ==
    LET t == MatchTally(features, rules, [score |-> 0, matches |-> 0])
    IN IF t.matches > 0 THEN (t.score * (10 + t.matches)) \div 10 ELSE t.score

\* The loop of classify over attack_signatures.items(): best_match is "None"
\* (Python's None) until a score exceeds best_score
RECURSIVE BestOf(_, _, _)
BestOf(features, sigs, acc) ==
    IF sigs = <<>> THEN acc
    ELSE LET score == _calculate_match_score(features, Head(sigs).rules)
         IN BestOf(features, Tail(sigs),
                   IF score > acc.best_score
                   THEN [best_match |-> Head(sigs).name, best_score |-> score]
                   ELSE acc)

classify_details(features) ==
    [a \in AttackTypes |->
        LET k == CHOOSE j \in 1..Len(attack_signatures) : attack_signatures[j].name = a
        IN _calculate_match_score(features, attack_signatures[k].rules)]

confidence_threshold == 60

\* variant: the best match returned whatever the confidence
classify_NoThreshold(features, threshold) ==
    LET best == BestOf(features, attack_signatures, [best_match |-> "None", best_score |-> 0])
    IN [attack_type |-> best.best_match,
        confidence |-> Min2(SCALE, (SCALE * best.best_score) \div 100),
        details |-> classify_details(features)]

\* DeepAttackClassifier.classify.  No statement of the try block raises for a
\* mapping from feature names to numbers, so the except branch is not taken.
classify(features, threshold) ==
    LET best == BestOf(features, attack_signatures, [best_match |-> "None", best_score |-> 0])
        confidence == Min2(SCALE, (SCALE * best.best_score) \div 100)
    IN IF confidence < threshold
       THEN [attack_type |-> "Unknown Attack", confidence |-> confidence,
             details |-> classify_details(features)]
       ELSE [attack_type |-> best.best_match, confidence |-> confidence,
             details |-> classify_details(features)]

\* feature values on both sides of each cutoff (20, 50, 80)
FeatureValues == {19, 20, 50, 51, 80, 81}

\* vectors of the scenarios of the specification: syn_count = 90 with
\* unique_dst_ports = 70, alone and with features that satisfy no further
\* rule, vectors that satisfy every rule of one signature, and the vectors
\* with every feature high and every feature low
ScenarioVectors ==
    {[syn_count |-> 90, unique_dst_ports |-> 70],
     [syn_count |-> 90, unique_dst_ports |-> 70, packet_rate |-> 50],
     [syn_count |-> 90, unique_dst_ports |-> 70, critical_ratio |-> 20, packet_count |-> 80],
     [syn_count |-> 90, unique_dst_ports |-> 70, critical_ratio |-> 10],
     [syn_count |-> 90, unique_dst_ports |-> 70, packet_rate |-> 90],
     [syn_count |-> 51, unique_dst_ports |-> 51, packet_rate |-> 51],
     [syn_count |-> 51, unique_dst_ports |-> 51, packet_rate |-> 81, packet_count |-> 81],
     [failed_login_count |-> 51, warning_ratio |-> 51],
     [sql_injection_count |-> 51, suspicious_command_count |-> 50],
     [packet_rate |-> 81, packet_count |-> 81],
     [packet_rate |-> 81, packet_count |-> 80],
     [avg_payload_size |-> 51, unique_dst_ips |-> 51],
     [port_scan_count |-> 51, privilege_escalation_count |-> 51,
      access_violation_count |-> 51],
     [critical_ratio |-> 19, warning_ratio |-> 19],
     [critical_ratio |-> 19, warning_ratio |-> 20],
     [sql_injection_count |-> 51, suspicious_command_count |-> 51],
     [n \in FeatureNames |-> 81],
     [n \in FeatureNames |-> 19]}

FeatureVectors ==
    ScenarioVectors \cup
    UNION {[S -> FeatureValues] :
              S \in {T \in SUBSET FeatureNames : Cardinality(T) <= MaxPresent}}

ConfidenceThresholds == {-10, 0, 48, confidence_threshold, 100}

NoClassification ==
    [called |-> FALSE, features |-> [n \in {} |-> 0], threshold |-> 0,
     out |-> [attack_type |-> "", confidence |-> 0, details |-> [a \in {} |-> 0]]]

\* classify(features, confidence_threshold)
Classify(features, threshold) ==
    /\ cls' = [called |-> TRUE, features |-> features, threshold |-> threshold,
               out |-> classify(features, threshold)]
    /\ UNCHANGED <<detectorVars, sev, callVars, pipelineVars>>

----------------------------------------------------------------------------
(* ExplainabilityEngine *)

\* the severity banner of explain_alert
explain_banner(anomaly_score) ==
    IF anomaly_score > 90 THEN "CRITICAL THREAT"
    ELSE IF anomaly_score > 70 THEN "WARNING"
    ELSE "INFO"

\* A feature dictionary handed to the engine is kept in insertion order, as a
\* sequence of entries [name, kind, value], the names distinct.  kind is the
\* type of the value: "int" and "float" for Python numbers (numpy's float64,
\* which np.mean and np.std return, is a subclass of float), "npint" for a
\* numpy integer scalar (np.max and np.min of a list of ints return one, as
\* for max_packet_size at feature_extractor.py line 61; it is no instance of
\* int), "str" for text.
Feature(name, kind, value) == [name |-> name, kind |-> kind, value |-> value]

\* line 266: isinstance(value, (int, float))
IsIntOrFloat(kind) == kind \in {"int", "float"}

\* lines 264-267: normalized, in insertion order
NormalizedFeatures(features) ==
    LET kept == SelectSeq(features, LAMBDA e : IsIntOrFloat(e.kind))
    IN [k \in 1..Len(kept) |->
           [indicator |-> kept[k].name, value |-> Min2(100, Max2(0, kept[k].value))]]

\* line 270: sorted(items, key=value, reverse=True); the sort is stable, so
\* items of equal value keep their order
RECURSIVE TopIndicators(_)
TopIndicators(items) ==
    IF items = <<>> THEN <<>>
    ELSE LET rest == TopIndicators(SubSeq(items, 1, Len(items) - 1))
             e == items[Len(items)]
             k == Cardinality({j \in 1..Len(rest) : rest[j].value >= e.value})
         IN SubSeq(rest, 1, k) \o <<e>> \o SubSeq(rest, k + 1, Len(rest))

\* ExplainabilityEngine._get_top_indicators
_get_top_indicators(features) == TopIndicators(NormalizedFeatures(features))

\* ExplainabilityEngine._generate_findings; the substring tests, on the labels
\* the classifier can return
_generate_findings(features, attack_type) ==
    IF attack_type = "Port Scan"
    THEN <<"Multiple destination ports accessed", "High SYN flag count detected",
           "Unusual port sequence detected">>
    ELSE IF attack_type = "Brute Force"
    THEN <<"Multiple failed login attempts detected",
           "Rapid authentication attempts from single source">>
    ELSE IF attack_type = "SQL Injection"
    THEN <<"SQL keywords detected in HTTP request",
           "Abnormal query patterns in application traffic">>
    ELSE IF attack_type = "DoS Attack"
    THEN <<"High packet rate detected", "Large volume of traffic from single source">>
    ELSE IF attack_type = "Data Exfiltration"
    THEN <<"Large outbound data transfer detected",
           "Connection to multiple external destinations">>
    ELSE <<>>

\* ExplainabilityEngine._get_recommendations
_get_recommendations(attack_type, anomaly_score) ==
    (IF anomaly_score > 90
     THEN <<"IMMEDIATE ACTION REQUIRED - Block source IP", "Isolate affected systems",
            "Collect detailed logs for forensics">>
     ELSE IF anomaly_score > 70
     THEN <<"Monitor source for additional suspicious activity",
            "Review affected system logs", "Consider rate-limiting from source IP">>
     ELSE <<>>)
    \o (IF attack_type = "Port Scan"
        THEN <<"Review network segmentation rules", "Implement port-based access controls">>
        ELSE IF attack_type = "Brute Force"
        THEN <<"Enforce stronger authentication policies",
               "Implement account lockout mechanisms">>
        ELSE IF attack_type = "SQL Injection"
        THEN <<"Review application code for input validation",
               "Update database access controls">>
        ELSE <<>>)

\* ExplainabilityEngine.explain_alert.  text is the list the method joins, a
\* line per entry: [section, heading, item]; the other fields are the parts
\* the lines are made of.  No statement of the try block raises for a
\* feature dictionary and a text label, so the except branch is not taken.
explain_alert(features, anomaly_score, attack_type) ==
    LET top_indicators == _get_top_indicators(features)
        shown == SubSeq(top_indicators, 1, Min2(5, Len(top_indicators)))
        findings == _generate_findings(features, attack_type)
        recommendations == _get_recommendations(attack_type, anomaly_score)
        heading(section) == <<[section |-> section, heading |-> TRUE, item |-> <<>>]>>
        numbered(section, list) ==
            [k \in 1..Len(list) |-> [section |-> section, heading |-> FALSE,
                                     item |-> <<k, list[k]>>]]
        bullets(section, list) ==
            [k \in 1..Len(list) |-> [section |-> section, heading |-> FALSE,
                                     item |-> <<list[k]>>]]
    IN [banner |-> explain_banner(anomaly_score),
        attack_type |-> attack_type,
        top_indicators |-> shown,
        findings |-> findings,
        recommendations |-> recommendations,
        text |-> <<[section |-> "banner", heading |-> TRUE,
                    item |-> <<explain_banner(anomaly_score), attack_type>>]>>
                 \o heading("Contributing Factors") \o numbered("Contributing Factors", shown)
                 \o heading("Findings") \o bullets("Findings", findings)
                 \o heading("Recommendations") \o bullets("Recommendations", recommendations)]

\* anomaly scores handed to explain_alert
AlertScores == {-20, 0, 30, 69, 70, 71, 75, 89, 90, 91, 95, 100, 120}

\* labels handed to explain_alert
AlertLabels == AttackTypes \cup {"Unknown Attack"}

\* feature vectors handed to explain_alert: none, fewer than five, more than
\* five, values outside 0..100, equal values, text, and the packet features
\* of the extractor
AlertFeatures ==
    {<<>>,
     <<Feature("syn_count", "int", 90), Feature("unique_dst_ports", "int", 70)>>,
     <<Feature("a", "int", 120), Feature("b", "float", 150), Feature("c", "int", -5),
       Feature("d", "int", 0)>>,
     <<Feature("a", "int", 10), Feature("b", "int", 30), Feature("c", "int", 30),
       Feature("d", "int", 20), Feature("e", "int", 30), Feature("f", "int", 30),
       Feature("g", "int", 30), Feature("h", "int", 40)>>,
     <<Feature("protocol", "str", 0), Feature("packet_rate", "float", 85),
       Feature("src_ip", "str", 0), Feature("packet_count", "int", 85)>>,
     <<Feature("packet_count", "int", 50), Feature("avg_packet_size", "float", 60),
       Feature("max_packet_size", "npint", 100), Feature("min_packet_size", "npint", 40),
       Feature("std_packet_size", "float", 15)>>}

NoExplanation == [called |-> FALSE, features |-> <<>>, anomaly_score |-> 0,
                  out |-> explain_alert(<<>>, 0, "")]

\* explain_alert(features, anomaly_score, attack_type, classifier_details)
ExplainAlert(features, anomaly_score, attack_type) ==
    /\ expl' = [called |-> TRUE, features |-> features, anomaly_score |-> anomaly_score,
                out |-> explain_alert(features, anomaly_score, attack_type)]
    /\ UNCHANGED <<detectorVars, sev, cls, resp, pipelineVars>>

----------------------------------------------------------------------------
(* MultiAgentSystem: the five agents and process_threat.  Timestamps        *)
(* (datetime.now()) decide nothing and are left out of messages and         *)
(* results.                                                                 *)

\* process_threat calls started in one behaviour
MaxRuns == 2

\* longest anomaly_scores array handed to process_threat
MaxScores == 2

AgentIds == <<"monitor-agent", "detect-agent", "classify-agent", "explain-agent",
              "response-agent">>

Agents == {AgentIds[k] : k \in 1..Len(AgentIds)}

\* dict.get(key, default)
Get(d, key, default) == IF key \in DOMAIN d THEN d[key] ELSE default

\* SecurityAgent.send_message
send_message(agent_id, recipient, message_type, content) ==
    [sender |-> agent_id, recipient |-> recipient, message_type |-> message_type,
     content |-> content]

\* the body of MonitoringAgent.collect_data
collect_data(packets, events) ==
    LET protocolOf(i) == Get(packets[i], "protocol", "Unknown")
        data_summary ==
            [packet_count |-> Len(packets),
             event_count |-> Len(events),
             protocols |-> [p \in {protocolOf(i) : i \in 1..Len(packets)} |->
                               Cardinality({i \in 1..Len(packets) : protocolOf(i) = p})]]
    IN send_message("monitor-agent", "detect-agent", "raw_data",
                    [packets |-> packets, events |-> events, summary |-> data_summary])

anomaly_threshold == 70

\* The packet-size branch of process_data works on exact quantities: with n
\* sizes of sum S, packet i deviates from the mean by (n*x_i - S)/n and the
\* variance is SumSq/n^3, where SumSq is the sum of the (n*x_j - S)^2.
PacketSizes(packets) == [i \in 1..Len(packets) |-> Get(packets[i], "packet_size", 0)]

ScaledDev(sizes, i) == Len(sizes) * sizes[i] - SumSeq(sizes)

SumSqDev(sizes) ==
    SumSeq([j \in 1..Len(sizes) |-> ScaledDev(sizes, j) * ScaledDev(sizes, j)])

\* variant: a 2-sigma rule
ZAbove3_TwoSigma(sizes, i) ==
    Len(sizes) * ScaledDev(sizes, i) * ScaledDev(sizes, i) > 4 * SumSqDev(sizes)

\* abs((size - mean_size) / (std_size + 1e-8)) > 3
ZAbove3(sizes, i) ==
    Len(sizes) * ScaledDev(sizes, i) * ScaledDev(sizes, i) > 9 * SumSqDev(sizes)

\* the z-score on the grid
ZScore(sizes, i) ==
    IF ScaledDev(sizes, i) = 0 THEN 0
    ELSE Isqrt((SCALE * SCALE * Len(sizes) * ScaledDev(sizes, i) * ScaledDev(sizes, i))
                  \div SumSqDev(sizes))

RECURSIVE ScoreDetections(_, _)
ScoreDetections(anomaly_scores, i) ==
    IF i > Len(anomaly_scores) THEN <<>>
    ELSE (IF anomaly_scores[i] > anomaly_threshold
          THEN <<[anomaly_score |-> anomaly_scores[i], index |-> i - 1,
                  severity |-> IF anomaly_scores[i] > 90 THEN "CRITICAL" ELSE "WARNING"]>>
          ELSE <<>>)
         \o ScoreDetections(anomaly_scores, i + 1)

RECURSIVE PacketDetections(_, _, _)
PacketDetections(packets, sizes, i) ==
    IF i > Len(packets) THEN <<>>
    ELSE (IF ZAbove3(sizes, i)
          THEN <<[anomaly_score |-> Min2(SCALE, ZScore(sizes, i) \div 5),
                  packet |-> packets[i], reason |-> "Unusual packet size"]>>
          ELSE <<>>)
         \o PacketDetections(packets, sizes, i + 1)

\* the body of DetectionAgent.process_data; anomaly_scores is
\* [given |-> FALSE] for None
process_data(packets, events, anomaly_scores) ==
    LET detections ==
            IF anomaly_scores.given
            THEN ScoreDetections(anomaly_scores.scores, 1)
            ELSE IF Len(packets) > 0
                 THEN PacketDetections(packets, PacketSizes(packets), 1)
                 ELSE <<>>
    IN send_message("detect-agent", "classify-agent", "anomalies_detected",
                    [detections |-> detections, detection_count |-> Len(detections)])

\* variant: the confidence of the highest tier not capped at 1
_classify_single_NoCap(detection, features) ==
    LET score == Get(detection, "anomaly_score", 50)
    IN IF score > 95
       THEN [type |-> "DoS Attack", confidence |-> (score * 11) \div 10,
             indicators |-> <<"high_packet_rate", "packet_flood">>]
       ELSE IF score > 80
       THEN [type |-> "Port Scan", confidence |-> score,
             indicators |-> <<"multiple_ports", "syn_flood">>]
       ELSE [type |-> "Anomalous Traffic", confidence |-> score,
             indicators |-> <<"unusual_pattern">>]

\* ClassificationAgent._classify_single
_classify_single(detection, features) ==
    LET score == Get(detection, "anomaly_score", 50)
    IN IF score > 95
       THEN [type |-> "DoS Attack", confidence |-> Min2(SCALE, (score * 11) \div 10),
             indicators |-> <<"high_packet_rate", "packet_flood">>]
       ELSE IF score > 80
       THEN [type |-> "Port Scan", confidence |-> score,
             indicators |-> <<"multiple_ports", "syn_flood">>]
       ELSE [type |-> "Anomalous Traffic", confidence |-> score,
             indicators |-> <<"unusual_pattern">>]

\* variant: the classifications sent past the explanation stage
classify_attacks_WrongRecipient(detections, features) ==
    LET classifications ==
            [k \in 1..Len(detections) |->
                LET attack_type == _classify_single(detections[k], features)
                IN [detection |-> detections[k],
                    attack_type |-> attack_type.type,
                    confidence |-> attack_type.confidence,
                    indicators |-> attack_type.indicators]]
    IN send_message("classify-agent", "response-agent", "classifications_ready",
                    [classifications |-> classifications])

\* variant: the classifications listed from the last detection to the first
classify_attacks_Reversed(detections, features) ==
    LET classifications ==
            [k \in 1..Len(detections) |->
                LET detection == detections[Len(detections) + 1 - k]
                    attack_type == _classify_single(detection, features)
                IN [detection |-> detection,
                    attack_type |-> attack_type.type,
                    confidence |-> attack_type.confidence,
                    indicators |-> attack_type.indicators]]
    IN send_message("classify-agent", "explain-agent", "classifications_ready",
                    [classifications |-> classifications])

\* the body of ClassificationAgent.classify_attacks
classify_attacks(detections, features) ==
    LET classifications ==
            [k \in 1..Len(detections) |->
                LET attack_type == _classify_single(detections[k], features)
                IN [detection |-> detections[k],
                    attack_type |-> attack_type.type,
                    confidence |-> attack_type.confidence,
                    indicators |-> attack_type.indicators]]
    IN send_message("classify-agent", "explain-agent", "classifications_ready",
                    [classifications |-> classifications])

\* ExplanationAgent._get_recommendations
ExplanationRecommendations(attack_type) ==
    IF attack_type = "Port Scan"
    THEN <<"Review firewall rules", "Monitor source IP for further activity",
           "Consider implementing port knocking">>
    ELSE IF attack_type = "Brute Force"
    THEN <<"Implement rate limiting", "Enforce password policies",
           "Enable MFA on affected accounts">>
    ELSE IF attack_type = "SQL Injection"
    THEN <<"Review application code for input validation",
           "Update database access controls", "Implement parameterized queries">>
    ELSE IF attack_type = "DoS Attack"
    THEN <<"Activate DDoS mitigation", "Block source IP addresses",
           "Scale infrastructure capacity">>
    ELSE IF attack_type = "Data Exfiltration"
    THEN <<"Block source IP immediately", "Review data access logs",
           "Implement data loss prevention">>
    ELSE <<"Investigate further", "Collect forensic evidence",
           "Update security policies">>

\* ExplanationAgent._generate_explanation; the text is kept as its parts
_generate_explanation(classification) ==
    LET attack_type == Get(classification, "attack_type", "Unknown")
        confidence == Get(classification, "confidence", 50)
        indicators == Get(classification, "indicators", <<>>)
        severity == IF confidence > 90 THEN "CRITICAL"
                    ELSE IF confidence > 70 THEN "WARNING" ELSE "INFO"
        closing == IF confidence > 90
                   THEN "This is a critical threat requiring immediate action."
                   ELSE IF confidence > 70
                   THEN "Recommend immediate investigation and monitoring."
                   ELSE ""
    IN [severity |-> severity,
        attack_type |-> attack_type,
        confidence |-> confidence,
        explanation |-> <<attack_type, confidence, indicators, closing>>,
        recommendations |-> ExplanationRecommendations(attack_type)]

\* the body of ExplanationAgent.generate_explanations
generate_explanations(classifications) ==
    send_message("explain-agent", "response-agent", "explanations_generated",
                 [explanations |-> [k \in 1..Len(classifications) |->
                                       _generate_explanation(classifications[k])]])

\* variant: a WARNING handled like the lower severities
_get_automated_actions_WarningAsInfo(severity) ==
    IF severity = "CRITICAL"
    THEN <<"Log all activity", "Capture network traffic", "Alert security team",
           "Prepare isolation commands">>
    ELSE <<"Log activity", "Monitor">>

\* ResponseAgent._get_automated_actions
_get_automated_actions(severity) ==
    IF severity = "CRITICAL"
    THEN <<"Log all activity", "Capture network traffic", "Alert security team",
           "Prepare isolation commands">>
    ELSE IF severity = "WARNING"
    THEN <<"Log activity", "Monitor source IP", "Alert security team">>
    ELSE <<"Log activity", "Monitor">>

\* the body of ResponseAgent.generate_response
generate_response(explanations) ==
    [total_threats |-> Len(explanations),
     actions |-> [k \in 1..Len(explanations) |->
                    LET explanation == explanations[k]
                        severity == Get(explanation, "severity", "INFO")
                    IN [severity |-> severity,
                        alert_type |-> Get(explanation, "attack_type", "Unknown"),
                        confidence |-> Get(explanation, "confidence", 0),
                        explanation |-> Get(explanation, "explanation", <<>>),
                        recommended_actions |-> Get(explanation, "recommendations", <<>>),
                        automated_actions |-> _get_automated_actions(severity)]],
     alerts |-> [k \in 1..Len(explanations) |->
                    LET explanation == explanations[k]
                    IN [type |-> Get(explanation, "attack_type", "None"),
                        severity |-> Get(explanation, "severity", "INFO"),
                        confidence |-> Get(explanation, "confidence", "None"),
                        explanation |-> Get(explanation, "explanation", "None")]],
     status |-> "READY_FOR_EXECUTION"]

----------------------------------------------------------------------------
(* Inputs of process_threat *)

Packet(protocol, size) == [protocol |-> protocol, packet_size |-> size]

\* n packets, the last one larger than the others
Spike(n) == [i \in 1..n |-> IF i = n THEN Packet("TCP", 5) ELSE Packet("TCP", 1)]

\* n packets of one size
Flat(n) == [i \in 1..n |-> Packet("UDP", 5)]

\* batches of no, one and two packets, a packet without a size, batches of
\* ten and eleven packets with one packet apart from the others (the shape
\* with the largest z-score a batch of its length can have), and a batch of
\* packets of one size
PacketBatches ==
    {<<>>,
     <<Packet("TCP", 1)>>,
     <<Packet("TCP", 1), Packet("UDP", 5)>>,
     <<[protocol |-> "ICMP"]>>,
     [i \in 1..10 |-> IF i = 1 THEN Packet("TCP", 1000) ELSE Packet("TCP", 1)],
     Spike(10),
     Spike(11),
     Flat(11)}

\* anomaly scores on both sides of each cutoff of the stages (0.7, 0.8, 0.9,
\* 0.95), and one above 1
ScoreValues == {50, 70, 71, 80, 81, 90, 91, 95, 96, 120}

ScoreBatches ==
    {<<>>} \cup {<<v>> : v \in ScoreValues}
           \cup UNION {[1..k -> {75, 96}] : k \in 2..MaxScores}

NoScores == [given |-> FALSE, scores |-> <<>>]

NoFeatures == [given |-> FALSE, map |-> [n \in {} |-> 0]]

RunInputs ==
    {[packets |-> p, events |-> <<>>, anomaly_scores |-> NoScores, features |-> NoFeatures] :
        p \in PacketBatches}
    \cup {[packets |-> <<>>, events |-> <<"login failed">>, anomaly_scores |-> NoScores,
           features |-> NoFeatures]}
    \cup {[packets |-> <<Packet("TCP", 1)>>, events |-> <<>>,
           anomaly_scores |-> [given |-> TRUE, scores |-> sc], features |-> NoFeatures] :
        sc \in ScoreBatches}
    \cup {[packets |-> <<Packet("TCP", 1)>>, events |-> <<>>,
           anomaly_scores |-> [given |-> TRUE, scores |-> sc],
           features |-> [given |-> TRUE, map |-> [syn_count |-> 90, unique_dst_ports |-> 70]]] :
        sc \in {<<75>>, <<96>>}}

NoRun == [packets |-> <<>>, events |-> <<>>, anomaly_scores |-> NoScores,
          features |-> NoFeatures, first |-> 0,
          detections |-> <<>>, classifications |-> <<>>, explanations |-> <<>>]

NoResult == [status |-> "NONE"]

----------------------------------------------------------------------------
(* process_threat, one action per stage call and per return *)

\* process_threat(packets, events, anomaly_scores, features) is entered
ProcessThreat(inp) ==
    /\ pc = "idle"
    /\ runs < MaxRuns
    /\ runs' = runs + 1
    /\ run' = [NoRun EXCEPT !.packets = inp.packets, !.events = inp.events,
                            !.anomaly_scores = inp.anomaly_scores,
                            !.features = inp.features,
                            !.first = Len(message_queue)]
    /\ invoked' = <<>>
    /\ pc' = "monitoring"
    /\ UNCHANGED <<detectorVars, sev, cls, callVars, message_queue, status, result>>

\* Step 1: msg1 = monitoring_agent.collect_data(...); message_queue.append(msg1)
CollectData ==
    /\ pc = "monitoring"
    /\ message_queue' = Append(message_queue, collect_data(run.packets, run.events))
    /\ status' = [status EXCEPT !["monitor-agent"] = "idle"]
    /\ invoked' = Append(invoked, "monitor-agent")
    /\ pc' = "detection"
    /\ UNCHANGED <<detectorVars, sev, cls, callVars, run, result, runs>>

\* Step 2: msg2 = detection_agent.process_data(...); message_queue.append(msg2)
ProcessData ==
    /\ pc = "detection"
    /\ LET msg2 == process_data(run.packets, run.events, run.anomaly_scores)
       IN /\ message_queue' = Append(message_queue, msg2)
          /\ run' = [run EXCEPT !.detections = Get(msg2.content, "detections", <<>>)]
    /\ status' = [status EXCEPT !["detect-agent"] = "idle"]
    /\ invoked' = Append(invoked, "detect-agent")
    /\ pc' = "detected"
    /\ UNCHANGED <<detectorVars, sev, cls, callVars, result, runs>>

\* if not detections: return the NORMAL result
ReturnNormal ==
    /\ pc = "detected"
    /\ run.detections = <<>>
    /\ result' = [status |-> "NORMAL", threat_detected |-> FALSE,
                  message |-> "No threats detected"]
    /\ pc' = "idle"
    /\ UNCHANGED <<detectorVars, sev, cls, callVars, message_queue, status, run, invoked, runs>>

\* variant: the pipeline goes on without the test for an empty detection list
ClassifyAttacks_NoShortCircuit ==
    /\ pc = "detected"
    /\ LET msg3 == classify_attacks(run.detections, run.features)
       IN /\ message_queue' = Append(message_queue, msg3)
          /\ run' = [run EXCEPT !.classifications = Get(msg3.content, "classifications", <<>>)]
    /\ status' = [status EXCEPT !["classify-agent"] = "idle"]
    /\ invoked' = Append(invoked, "classify-agent")
    /\ pc' = "explanation"
    /\ UNCHANGED <<detectorVars, sev, cls, callVars, result, runs>>

\* Step 3: msg3 = classification_agent.classify_attacks(detections, features)
ClassifyAttacks ==
    /\ pc = "detected"
    /\ run.detections # <<>>
    /\ LET msg3 == classify_attacks(run.detections, run.features)
       IN /\ message_queue' = Append(message_queue, msg3)
          /\ run' = [run EXCEPT !.classifications = Get(msg3.content, "classifications", <<>>)]
    /\ status' = [status EXCEPT !["classify-agent"] = "idle"]
    /\ invoked' = Append(invoked, "classify-agent")
    /\ pc' = "explanation"
    /\ UNCHANGED <<detectorVars, sev, cls, callVars, result, runs>>

\* Step 4: msg4 = explanation_agent.generate_explanations(classifications)
GenerateExplanations ==
    /\ pc = "explanation"
    /\ LET msg4 == generate_explanations(run.classifications)
       IN /\ message_queue' = Append(message_queue, msg4)
          /\ run' = [run EXCEPT !.explanations = Get(msg4.content, "explanations", <<>>)]
    /\ status' = [status EXCEPT !["explain-agent"] = "idle"]
    /\ invoked' = Append(invoked, "explain-agent")
    /\ pc' = "response"
    /\ UNCHANGED <<detectorVars, sev, cls, callVars, result, runs>>

\* variant: the result counts the messages of its own run
GenerateResponse_CountsOwnRun ==
    /\ pc = "response"
    /\ result' = [status |-> "THREATS_DETECTED", threat_detected |-> TRUE,
                  pipeline_messages |-> Len(message_queue) - run.first,
                  agents_involved |-> Len(AgentIds),
                  response |-> generate_response(run.explanations)]
    /\ status' = [status EXCEPT !["response-agent"] = "idle"]
    /\ invoked' = Append(invoked, "response-agent")
    /\ pc' = "idle"
    /\ UNCHANGED <<detectorVars, sev, cls, callVars, message_queue, run, runs>>

\* Step 5: response = response_agent.generate_response(explanations); return
GenerateResponse ==
    /\ pc = "response"
    /\ result' = [status |-> "THREATS_DETECTED", threat_detected |-> TRUE,
                  pipeline_messages |-> Len(message_queue),
                  agents_involved |-> Len(AgentIds),
                  response |-> generate_response(run.explanations)]
    /\ status' = [status EXCEPT !["response-agent"] = "idle"]
    /\ invoked' = Append(invoked, "response-agent")
    /\ pc' = "idle"
    /\ UNCHANGED <<detectorVars, sev, cls, callVars, message_queue, run, runs>>

\* MultiAgentSystem.get_system_status, in the current state
get_system_status ==
    [agents |-> [k \in 1..Len(AgentIds) |-> [id |-> AgentIds[k], status |-> status[AgentIds[k]]]],
     messages_processed |-> Len(message_queue),
     system_status |-> "OPERATIONAL"]

----------------------------------------------------------------------------
(* ResponseAgent.generate_response called on its own *)

\* longest explanation list handed to generate_response directly
MaxExplanations == 2

\* explanations as the Explanation stage builds them, with the severities it
\* can set, a severity it never sets, and no severity at all
ExplanationSamples ==
    LET base(a, c) == [attack_type |-> a, confidence |-> c,
                       explanation |-> <<a, c, <<>>, "">>,
                       recommendations |-> ExplanationRecommendations(a)]
    IN {base(a, c) : a \in {"Port Scan", "DoS Attack"}, c \in {75, 95}}
       \cup {[k \in DOMAIN base(a, c) \cup {"severity"} |->
                 IF k = "severity" THEN sv ELSE base(a, c)[k]] :
                 a \in {"Port Scan", "DoS Attack"}, c \in {75, 95},
                 sv \in {"CRITICAL", "WARNING", "INFO", "HIGH"}}

ExplanationLists == UNION {[1..k -> ExplanationSamples] : k \in 0..MaxExplanations}

NoResponse == [called |-> FALSE, explanations |-> <<>>, out |-> generate_response(<<>>)]

\* generate_response(explanations)
CallGenerateResponse(explanations) ==
    /\ resp' = [called |-> TRUE, explanations |-> explanations,
                out |-> generate_response(explanations)]
    /\ status' = [status EXCEPT !["response-agent"] = "idle"]
    /\ UNCHANGED <<detectorVars, sev, cls, expl, message_queue, pc, run, invoked, result,
                   runs>>

----------------------------------------------------------------------------
(* Specifications *)

Init ==
    /\ isolation_forest = NoForest
    /\ baseline_stats = NoStats
    /\ trained = FALSE
    /\ ens = NoCall
    /\ prev = NoCall
    /\ det = NoDetect
    /\ scan = NoScan
    /\ sev = <<>>
    /\ cls = NoClassification
    /\ expl = NoExplanation
    /\ resp = NoResponse
    /\ message_queue = <<>>
    /\ status = [a \in Agents |-> "idle"]
    /\ pc = "idle"
    /\ run = NoRun
    /\ invoked = <<>>
    /\ result = NoResult
    /\ runs = 0

SeverityScores == {-20, 0, 30, 69, 70, 71, 75, 89, 90, 91, 95, 100, 120}

SeverityThresholds == {50, warning_threshold, critical_threshold}

\* A fit call clears the record of the calls before it, so a fit made after
\* a recorded call leads to the state the same fit leads to when made before
\* that call (a call changes no field of the detector): the fit calls are
\* followed from the states that hold no recorded call.
CallFitIsolationForest ==
    /\ ~ens.called
    /\ ~det.called
    /\ \E X \in ForestBatches, sklearn \in BOOLEAN : FitIsolationForest(X, sklearn)

CallFitStatisticalBaseline ==
    /\ ~ens.called
    /\ ~det.called
    /\ \E X \in Batches : FitStatisticalBaseline(X)

\* one ensemble_detection call is followed after each fit call: the call
\* changes no field of the detector
CallEnsembleDetection ==
    /\ ~ens.called
    /\ \E X \in Batches, weights \in WeightMaps : EnsembleDetection(X, weights)

\* the same call once more, with the batch and the weights of the last one
RepeatEnsembleDetection ==
    /\ ens.called
    /\ ~prev.called
    /\ EnsembleDetection(ens.X, ens.weights)

NextDetector ==
    \/ CallFitIsolationForest
    \/ CallFitStatisticalBaseline
    \/ CallEnsembleDetection
    \/ RepeatEnsembleDetection

\* one detect_statistical or detect_mad call is followed after each fit call
CallDetect ==
    /\ ~det.called
    /\ \E X \in Batches : DetectStatistical(X) \/ DetectMad(X)

NextScoring ==
    \/ CallFitStatisticalBaseline
    \/ CallDetect

\* a retraining thread and a scoring thread on one AnomalyDetector
NextConcurrent ==
    \/ CallFitStatisticalBaseline
    \/ \E X \in ScanBatches : ScanEnter(X)
    \/ ScanReadMean
    \/ ScanReadStd
    \/ ScanScores
    \/ ScanMad
    \/ ScanReturn

\* one explain_alert call per behaviour: the engine keeps no state between calls
CallExplainAlert ==
    /\ ~expl.called
    /\ \E f \in AlertFeatures, s \in AlertScores, a \in AlertLabels : ExplainAlert(f, s, a)

NextExplain == CallExplainAlert

\* one direct generate_response call per behaviour
CallResponse ==
    /\ ~resp.called
    /\ \E e \in ExplanationLists : CallGenerateResponse(e)

NextResponse == CallResponse

NextSeverity ==
    \E s \in SeverityScores, c \in SeverityThresholds, w \in SeverityThresholds :
        ClassifyAnomaly(s, c, w)

\* one classify call per behaviour: the classifier keeps no state between calls
CallClassify ==
    /\ ~cls.called
    /\ \E f \in FeatureVectors, t \in ConfidenceThresholds : Classify(f, t)

NextClassifier == CallClassify

NextPipeline ==
    \/ \E inp \in RunInputs : ProcessThreat(inp)
    \/ CollectData
    \/ ProcessData
    \/ ReturnNormal
    \/ ClassifyAttacks
    \/ GenerateExplanations
    \/ GenerateResponse

SpecDetector == Init /\ [][NextDetector]_vars

SpecSeverity == Init /\ [][NextSeverity]_vars

SpecClassifier == Init /\ [][NextClassifier]_vars

SpecPipeline == Init /\ [][NextPipeline]_vars

SpecScoring == Init /\ [][NextScoring]_vars

SpecConcurrent == Init /\ [][NextConcurrent]_vars

SpecExplain == Init /\ [][NextExplain]_vars

SpecResponse == Init /\ [][NextResponse]_vars

Next == NextDetector \/ NextScoring \/ NextConcurrent \/ NextExplain \/ NextResponse
        \/ NextSeverity \/ NextClassifier \/ NextPipeline

Spec == Init /\ [][Next]_vars

----------------------------------------------------------------------------
(* Properties of ensemble_detection (SpecDetector) *)

\* the record of a call that returned holds one score in [0,1] per sample
ValidScoreVector(call) ==
    /\ ~call.raised
    /\ Len(call.ensemble_scores) = Len(call.X)
    /\ \A i \in 1..Len(call.ensemble_scores) :
           0 <= call.ensemble_scores[i] /\ call.ensemble_scores[i] <= SCALE

\* C1: for every batch, the empty one included, and every detector state
\* (baseline fitted or not; outlier model never fitted, fitted, or left
\* unusable by a failed fit), ensemble_detection returns a score vector whose
\* values all lie in [0,1].
C1_EnsembleScoreInUnitInterval == ens.called => ValidScoreVector(ens)

\* the detectors that can score the batch of the recorded call: the call was
\* made in the current detector state (a fit call clears the record)
Producing ==
    (IF isolation_forest.kind = "Fitted" /\ Len(ens.X) > 0
     THEN {"isolation_forest"} ELSE {})
    \cup (IF DOMAIN baseline_stats # {} /\ Len(ens.X) > 0
          THEN {"statistical", "mad"} ELSE {})

\* C10: with a non-empty batch and a detector unavailable or untrained
\* (baseline never fitted, outlier model never fitted, or outlier model whose
\* fit or scoring failed), ensemble_detection does not raise: it leaves that
\* detector out, divides by the weights of the detectors that produced
\* output, and returns one valid score per sample.
C10_PartialDetectorFailureTolerated ==
    (/\ ens.called
     /\ Len(ens.X) > 0
     /\ (DOMAIN baseline_stats = {} \/ isolation_forest.kind # "Fitted"))
    => /\ ValidScoreVector(ens)
       /\ DOMAIN ens.method_scores = Producing

----------------------------------------------------------------------------
(* Properties of classify_anomaly (SpecSeverity) *)

\* NORMAL < WARNING < CRITICAL
SeverityRank(severity) ==
    IF severity = "NORMAL" THEN 0 ELSE IF severity = "WARNING" THEN 1 ELSE 2

\* C6: for any fixed pair of thresholds classify_anomaly is monotonic in the
\* score: of two calls with the same thresholds, the one with the smaller
\* score never gets the higher severity.
C6_SeverityMonotonic ==
    (/\ Len(sev) = 2
     /\ sev[1].critical = sev[2].critical
     /\ sev[1].warning = sev[2].warning
     /\ sev[1].anomaly_score < sev[2].anomaly_score)
    => SeverityRank(sev[1].out.severity) <= SeverityRank(sev[2].out.severity)

\* two calls with thresholds in the wrong order (critical below warning) and
\* scores on both sides of a threshold
C6_Witness ==
    /\ Len(sev) = 2
    /\ sev[1].critical = sev[2].critical
    /\ sev[1].warning = sev[2].warning
    /\ sev[1].critical < sev[1].warning
    /\ sev[1].anomaly_score < sev[2].anomaly_score
    /\ sev[1].out.severity = "NORMAL"
    /\ sev[2].out.severity = "CRITICAL"

\* C7: with the default thresholds (0.9, 0.7) classify_anomaly answers for
\* every score: CRITICAL exactly from 0.9 up, WARNING exactly in [0.7, 0.9),
\* NORMAL for every other score, negative scores and scores above 1
\* included; 0.95 is CRITICAL, 0.75 is WARNING and 0.3 is NORMAL.
C7_DefaultThresholdTiers ==
    \A k \in 1..Len(sev) :
        (sev[k].critical = 90 /\ sev[k].warning = 70) =>
            LET score == sev[k].anomaly_score
                severity == sev[k].out.severity
            IN /\ severity \in {"NORMAL", "WARNING", "CRITICAL"}
               /\ (severity = "CRITICAL") <=> (score >= 90)
               /\ (severity = "WARNING") <=> (score >= 70 /\ score < 90)
               /\ (score = 95) => (severity = "CRITICAL")
               /\ (score = 75) => (severity = "WARNING")
               /\ (score = 30) => (severity = "NORMAL")

\* calls with the default thresholds at a boundary score, a negative score
\* and a score above 1
C7_Witness ==
    /\ Len(sev) = 2
    /\ \A k \in 1..2 : sev[k].critical = 90 /\ sev[k].warning = 70
    /\ sev[1].anomaly_score = 90 /\ sev[1].out.severity = "CRITICAL"
    /\ sev[2].anomaly_score \in {-20, 120}

----------------------------------------------------------------------------
(* Properties of DeepAttackClassifier (SpecClassifier) *)

\* a rule stated by its cutoffs: high is above 50, very_high above 80, low
\* below 20, and a feature that is absent satisfies no rule
RuleHolds(features, rule) ==
    /\ rule[1] \in DOMAIN features
    /\ \/ rule[2] = "high" /\ features[rule[1]] > 50
       \/ rule[2] = "very_high" /\ features[rule[1]] > 80
       \/ rule[2] = "low" /\ features[rule[1]] < 20

RulePoints(rule) == IF rule[2] = "very_high" THEN 30 ELSE 20

RulesOf(attack) ==
    LET sig == CHOOSE g \in {attack_signatures[k] : k \in 1..Len(attack_signatures)} :
                   g.name = attack
    IN {sig.rules[k] : k \in 1..Len(sig.rules)}

RECURSIVE PointsOf(_)
PointsOf(rules) ==
    IF rules = {} THEN 0
    ELSE LET r == CHOOSE x \in rules : TRUE
         IN RulePoints(r) + PointsOf(rules \ {r})

\* (sum of the matched rules' points) x (1 + 0.1 x number of matched rules)
ExpectedScore(features, attack) ==
    LET matched == {r \in RulesOf(attack) : RuleHolds(features, r)}
    IN (PointsOf(matched) * (10 + Cardinality(matched))) \div 10

Labels == AttackTypes \cup {"Unknown Attack"}

\* C4: whenever the confidence classify returns is below
\* confidence_threshold, the label it returns is "Unknown Attack".
C4_BelowThresholdIsUnknownAttack ==
    (cls.called /\ cls.out.confidence < cls.threshold)
    => cls.out.attack_type = "Unknown Attack"

\* a call in which some signature matched, with a confidence below the
\* threshold
C4_Witness ==
    /\ cls.called
    /\ cls.out.confidence > 0
    /\ cls.out.confidence < cls.threshold

\* C5: for every feature vector, one matching no rule included, and every
\* confidence_threshold, zero and negative included, classify returns a label
\* of the signature table or "Unknown Attack", with a confidence in [0,1].
C5_LabelFromClosedSet ==
    cls.called =>
        /\ cls.out.attack_type \in Labels
        /\ 0 <= cls.out.confidence /\ cls.out.confidence <= SCALE

\* C8: every score of details is (sum of matched rules' points) x
\* (1 + 0.1 x matched rules), with strict cutoffs and absent features never
\* matching, and the confidence is min(1, highest score / 100).
C8_MatchScoreFormula ==
    cls.called =>
        /\ DOMAIN cls.out.details = AttackTypes
        /\ \A a \in AttackTypes : cls.out.details[a] = ExpectedScore(cls.features, a)
        /\ \E a \in AttackTypes :
               /\ \A b \in AttackTypes :
                      ExpectedScore(cls.features, b) <= ExpectedScore(cls.features, a)
               /\ cls.out.confidence = Min2(SCALE, ExpectedScore(cls.features, a))

\* a call on a vector with a value on a cutoff whose signature still matched
\* twice or more
C8_Witness ==
    /\ cls.called
    /\ \E n \in DOMAIN cls.features : cls.features[n] \in {20, 50, 80}
    /\ \E a \in AttackTypes :
           Cardinality({r \in RulesOf(a) : RuleHolds(cls.features, r)}) >= 2

\* syn_count = 90, unique_dst_ports = 70 and no other rule of any signature
\* satisfied
PortScanScenario(features) ==
    /\ {"syn_count", "unique_dst_ports"} \subseteq DOMAIN features
    /\ features["syn_count"] = 90
    /\ features["unique_dst_ports"] = 70
    /\ \A a \in AttackTypes : \A r \in RulesOf(a) :
           r[1] \notin {"syn_count", "unique_dst_ports"} => ~RuleHolds(features, r)

PortScanRules == attack_signatures[1].rules

\* C9 as stated: in the scenario the Port Scan signature scores 40 points
\* before the bonus and 48 after it, more than every other attack type, and
\* classify with its default threshold selects Port Scan.
C9_ClassifySelectsPortScan ==
    (cls.called /\ PortScanScenario(cls.features) /\ cls.threshold = confidence_threshold)
    => /\ cls.out.details["Port Scan"] = 48
       /\ \A a \in AttackTypes \ {"Port Scan"} : cls.out.details[a] < 48
       /\ cls.out.attack_type = "Port Scan"

\* C9 amended: in the scenario the Port Scan signature scores 40 points
\* before the bonus with 2 matched rules and 48 after it, more than every
\* other attack type, and it is the best match of classify's loop; the
\* confidence is 0.48, so with the default threshold 0.6 classify returns
\* "Unknown Attack" with confidence 0.48.
C9_PortScanBestMatchBelowThreshold ==
    (cls.called /\ PortScanScenario(cls.features))
    => /\ MatchTally(cls.features, PortScanRules, [score |-> 0, matches |-> 0])
              = [score |-> 40, matches |-> 2]
       /\ cls.out.details["Port Scan"] = 48
       /\ \A a \in AttackTypes \ {"Port Scan"} : cls.out.details[a] < 48
       /\ BestOf(cls.features, attack_signatures,
                 [best_match |-> "None", best_score |-> 0]).best_match = "Port Scan"
       /\ cls.out.confidence = 48
       /\ (cls.threshold = confidence_threshold) => (cls.out.attack_type = "Unknown Attack")

\* the scenario with further features that satisfy no rule, classified with
\* the default threshold
C9_Witness ==
    /\ cls.called
    /\ PortScanScenario(cls.features)
    /\ Cardinality(DOMAIN cls.features) > 2
    /\ cls.threshold = confidence_threshold

----------------------------------------------------------------------------
(* Properties of process_threat (SpecPipeline) *)

\* the messages the current (or last) process_threat call has appended
RunMessages == SubSeq(message_queue, run.first + 1, Len(message_queue))

\* the last process_threat call has returned
Returned == pc = "idle" /\ runs > 0

IsPrefix(s, t) == Len(s) <= Len(t) /\ \A k \in 1..Len(s) : s[k] = t[k]

\* C2: whenever the detection list is empty, process_threat returns status
\* NORMAL with threat_detected false, the Classification, Explanation and
\* Response stages are not invoked in that run, and the run produces exactly
\* two messages, Monitoring's and Detection's.
C2_NoDetectionShortCircuit ==
    (Returned /\ run.detections = <<>>)
    => /\ result.status = "NORMAL"
       /\ result.threat_detected = FALSE
       /\ invoked = <<"monitor-agent", "detect-agent">>
       /\ Len(RunMessages) = 2
       /\ RunMessages[1].sender = "monitor-agent"
       /\ RunMessages[2].sender = "detect-agent"

\* a returned run that was given scores, none above the detection threshold
C2_Witness ==
    /\ Returned
    /\ run.detections = <<>>
    /\ run.anomaly_scores.given
    /\ Len(run.anomaly_scores.scores) > 0

\* C3: in a run with at least one detection the five stages run once each
\* in the order Monitoring, Detection, Classification, Explanation,
\* Response, a stage being over (its agent idle again) before the next
\* starts, and each message goes to the stage that runs next.
C3_StageOrderAndMessageChain ==
    /\ IsPrefix(invoked, AgentIds)
    /\ \A a \in Agents : status[a] = "idle"
    /\ \A k \in 1..Len(RunMessages) :
           /\ k < Len(AgentIds)
           /\ k <= Len(invoked)
           /\ RunMessages[k].sender = AgentIds[k]
           /\ RunMessages[k].recipient = AgentIds[k + 1]
    /\ (Returned /\ run.detections # <<>>)
       => /\ invoked = AgentIds
          /\ Len(RunMessages) = 4
          /\ result.status = "THREATS_DETECTED"

\* a returned run with two detections
C3_Witness ==
    /\ Returned
    /\ Len(run.detections) >= 2
    /\ result.status = "THREATS_DETECTED"

----------------------------------------------------------------------------
(* Degraded inputs of the detector *)

\* C11: for a zero-length batch no scoring operation fails, whatever the
\* detector state: ensemble_detection returns (an empty score vector) without
\* raising, and detect_statistical and detect_mad return an empty result.
C11_EmptyBatchNeverFails ==
    /\ (ens.called /\ Len(ens.X) = 0) => (~ens.raised /\ ens.ensemble_scores = <<>>)
    /\ detect_statistical(baseline_stats, <<>>) = <<>>
    /\ detect_mad(baseline_stats, <<>>) = <<>>

\* C12: a detect_statistical or detect_mad call made while no
\* fit_statistical_baseline has succeeded does not raise, returns an empty
\* result and changes no stored field of the detector.
C12_UntrainedDetectReturnsEmpty ==
    [][(det' # det /\ det'.called /\ baseline_stats = NoStats)
         => /\ ~det'.raised
            /\ det'.scores = <<>>
            /\ UNCHANGED <<isolation_forest, baseline_stats, trained>>]_vars

\* detect_statistical called on a full batch with no baseline
C12_Witness ==
    /\ det.called
    /\ baseline_stats = NoStats
    /\ Len(det.X) = MaxBatch
    /\ det.method = "statistical"

\* C13: no classify_anomaly call classifies a score with a critical
\* threshold below the warning threshold.
C13_ThresholdsOrdered ==
    \A k \in 1..Len(sev) : sev[k].critical >= sev[k].warning

----------------------------------------------------------------------------
(* Properties of ResponseAgent.generate_response (SpecResponse) *)

\* the automated actions the severity of an explanation calls for
ActionsFor(explanation) ==
    IF "severity" \in DOMAIN explanation /\ explanation["severity"] = "CRITICAL"
    THEN <<"Log all activity", "Capture network traffic", "Alert security team",
           "Prepare isolation commands">>
    ELSE IF "severity" \in DOMAIN explanation /\ explanation["severity"] = "WARNING"
    THEN <<"Log activity", "Monitor source IP", "Alert security team">>
    ELSE <<"Log activity", "Monitor">>

\* C14: generate_response makes one action per explanation, and the
\* automated actions of each are chosen by the explanation's severity alone:
\* four for CRITICAL, three for WARNING, two for any other or a missing one.
C14_AutomatedActionsBySeverity ==
    resp.called =>
        /\ Len(resp.out.actions) = Len(resp.explanations)
        /\ \A k \in 1..Len(resp.explanations) :
               resp.out.actions[k].automated_actions = ActionsFor(resp.explanations[k])

\* a call with a WARNING explanation and one that has no severity
C14_Witness ==
    /\ resp.called
    /\ \E k \in 1..Len(resp.explanations) :
           /\ "severity" \in DOMAIN resp.explanations[k]
           /\ resp.explanations[k]["severity"] = "WARNING"
    /\ \E k \in 1..Len(resp.explanations) : "severity" \notin DOMAIN resp.explanations[k]

----------------------------------------------------------------------------
(* Repeated ensemble_detection calls (SpecDetector) *)

\* C15: an ensemble_detection call changes neither the baseline statistics
\* nor the trained-model state, and a call that repeats the batch and the
\* weights of the call before it, with no fit in between, has the same
\* outcome: the same ensemble scores and the same per-method scores.
C15_EnsembleDetectionRepeatable ==
    [][(ens'.called /\ (ens' # ens \/ prev' # prev))
         => /\ UNCHANGED <<isolation_forest, baseline_stats, trained>>
            /\ (ens.called /\ ens'.X = ens.X /\ ens'.weights = ens.weights)
                  => /\ ens'.raised = ens.raised
                     /\ ens'.ensemble_scores = ens.ensemble_scores
                     /\ ens'.method_scores = ens.method_scores]_vars

\* two calls in a row on a non-empty batch, scored by all three detectors
C15_Witness ==
    /\ prev.called
    /\ ens.called
    /\ ens.X = prev.X
    /\ Len(ens.X) > 0
    /\ ~ens.raised
    /\ DOMAIN ens.method_scores = Methods

----------------------------------------------------------------------------
(* Lifetime of the agent messages (SpecPipeline) *)

\* C16: once process_threat has returned, the orchestrator holds no message
\* of that run: its queue is empty, get_system_status counts no message, and
\* the message count a run reports is the number of messages of that run.
C16_MessagesNotRetained ==
    Returned =>
        /\ message_queue = <<>>
        /\ get_system_status.messages_processed = 0
        /\ result.status = "THREATS_DETECTED"
              => result.pipeline_messages = Len(RunMessages)

----------------------------------------------------------------------------
(* Retraining while a call is scoring (SpecConcurrent) *)

\* C17: a scoring call that runs while fit_statistical_baseline retrains
\* takes all the statistics it uses (mean, std, median and MAD) from one and
\* the same fitted baseline, never some from the old fit and some from the
\* new one.
C17_ScoringSeesOneBaseline ==
    scan.seen_mean # NoStats =>
        /\ scan.pc \in {"scores", "mad", "done"} => scan.seen_mean = scan.seen_std
        /\ scan.pc = "done" => scan.seen_std = scan.seen_mad

----------------------------------------------------------------------------
(* Features of zero spread (SpecScoring) *)

\* a raw score is a finite number: a grid value, or a deviation over 1e-8
FiniteScore(r) == r.v >= 0

\* some feature of the baseline has zero standard deviation or zero MAD
ZeroSpread(stats) ==
    \E f \in FeatureIdx : stats["std"][f] = 0 \/ stats["mad"][f] = 0

\* C18: with a baseline in which some feature has zero spread,
\* detect_statistical and detect_mad return one finite score for every
\* sample of the batch.
C18_ZeroSpreadScoresFinite ==
    (det.called /\ baseline_stats # NoStats /\ ZeroSpread(baseline_stats))
        => /\ ~det.raised
           /\ Len(det.scores) = Len(det.X)
           /\ \A i \in 1..Len(det.scores) : FiniteScore(det.scores[i])

\* a baseline of identical samples, and a batch with a sample that deviates
\* in a feature of zero spread next to one that does not deviate at all
C18_Witness ==
    /\ det.called
    /\ baseline_stats # NoStats
    /\ \A f \in FeatureIdx : baseline_stats["std"][f] = 0
    /\ \E i \in 1..Len(det.scores) : det.scores[i].inf
    /\ \E i \in 1..Len(det.scores) : det.scores[i] = RawZero

----------------------------------------------------------------------------
(* Severity tiers of explain_alert (SpecExplain) *)

\* the tier a banner of explain_alert announces
BannerTier(banner) ==
    IF banner = "CRITICAL THREAT" THEN 2
    ELSE IF banner = "WARNING" THEN 1
    ELSE 0

\* the tier whose recommendations lead the list
RecommendationTier(recommendations) ==
    IF recommendations # <<>>
       /\ Head(recommendations) = "IMMEDIATE ACTION REQUIRED - Block source IP" THEN 2
    ELSE IF recommendations # <<>>
            /\ Head(recommendations) = "Monitor source for additional suspicious activity"
    THEN 1
    ELSE 0

\* C19: for every anomaly score, the tier of explain_alert's banner and the
\* tier of its severity-gated recommendations are the tier classify_anomaly
\* assigns with the default thresholds, the scores 0.9 and 0.7 included.
C19_ExplainTierMatchesClassifyAnomaly ==
    expl.called =>
        LET tier == SeverityRank(classify_anomaly(expl.anomaly_score, critical_threshold,
                                                  warning_threshold).severity)
        IN /\ BannerTier(expl.out.banner) = tier
           /\ RecommendationTier(expl.out.recommendations) = tier

----------------------------------------------------------------------------
(* Detections of the Detection stage (SpecPipeline) *)

\* C20: every detection the Detection stage emits carries an anomaly score
\* and a severity tag, on the score path and on the packet-size path.
C20_DetectionsCarryScoreAndSeverity ==
    \A k \in 1..Len(run.detections) :
        /\ "anomaly_score" \in DOMAIN run.detections[k]
        /\ "severity" \in DOMAIN run.detections[k]

----------------------------------------------------------------------------
(* The Classification stage and the signature classifier (SpecPipeline) *)

\* C21: every classification of a pipeline run carries an attack type of the
\* signature table or "Unknown Attack", and, when the run was given a
\* feature vector, the label and the confidence DeepAttackClassifier.classify
\* returns for that vector with its default threshold.
C21_ClassificationStageRunsClassifier ==
    \A k \in 1..Len(run.classifications) :
        /\ run.classifications[k].attack_type \in Labels
        /\ run.features.given =>
              LET out == classify(run.features.map, confidence_threshold)
              IN /\ run.classifications[k].attack_type = out.attack_type
                 /\ run.classifications[k].confidence = out.confidence

----------------------------------------------------------------------------
(* The fusion formula of ensemble_detection (SpecDetector) *)

\* the raw scores detector d gives the batch of the recorded call
RawScoresOf(d) ==
    IF d = "isolation_forest" THEN detect_isolation_forest(isolation_forest, ens.X)
    ELSE IF d = "statistical" THEN detect_statistical(baseline_stats, ens.X)
    ELSE detect_mad(baseline_stats, ens.X)

\* the weight detector d counts with: its weight in the map of the call, 0
\* when the map leaves it out or the detector produced no output
UsedWeight(d) == IF d \in Producing THEN WeightOf(ens.weights, d) ELSE 0

\* w_d x n_d for sample i, 0 for a detector that produced no output
WeightedTerm(d, i) ==
    IF d \in Producing THEN UsedWeight(d) * Normalized(RawScoresOf(d))[i] ELSE 0

\* sum(w_d x n_d) / sum(w_d) over the detectors that produced output, and 0
\* when there is none or their weights sum to 0
FusedScore(i) ==
    LET total == UsedWeight("isolation_forest") + UsedWeight("statistical")
                 + UsedWeight("mad")
        sum == WeightedTerm("isolation_forest", i) + WeightedTerm("statistical", i)
               + WeightedTerm("mad", i)
    IN IF Producing = {} \/ total = 0 THEN 0 ELSE sum \div total

\* C22: every ensemble_detection call returns, for each sample,
\* sum(w_d x n_d) / sum(w_d) over exactly the detectors that produced output
\* (default weights statistical 0.3, MAD 0.3, outlier model 0.4; weight 0
\* for a detector the weight map leaves out), and 0 for every sample when no
\* detector produced output or the used weights sum to 0.
C22_EnsembleFusionFormula ==
    /\ DefaultWeights = [isolation_forest |-> 40, statistical |-> 30, mad |-> 30]
    /\ ens.called =>
          /\ ~ens.raised
          /\ DOMAIN ens.method_scores = Producing
          /\ Len(ens.ensemble_scores) = Len(ens.X)
          /\ \A i \in 1..Len(ens.ensemble_scores) : ens.ensemble_scores[i] = FusedScore(i)

\* the same formula for the calls that returned
FusionFormulaOfReturnedCalls ==
    (ens.called /\ ~ens.raised) =>
          /\ DOMAIN ens.method_scores = Producing
          /\ Len(ens.ensemble_scores) = Len(ens.X)
          /\ \A i \in 1..Len(ens.ensemble_scores) : ens.ensemble_scores[i] = FusedScore(i)

----------------------------------------------------------------------------
(* Structure of the explanation text (SpecExplain) *)

SectionOrder == <<"banner", "Contributing Factors", "Findings", "Recommendations">>

SectionRank(section) == CHOOSE k \in 1..Len(SectionOrder) : SectionOrder[k] = section

\* the lines of the text come section by section in the fixed order, each
\* section opened by its heading, which it holds once
SectionsInOrder(text) ==
    /\ \A k \in 1..Len(text) : text[k].section \in {SectionOrder[j] : j \in 1..Len(SectionOrder)}
    /\ \A k \in 1..(Len(text) - 1) :
           SectionRank(text[k].section) <= SectionRank(text[k + 1].section)
    /\ \A j \in 1..Len(SectionOrder) :
           LET own == {k \in 1..Len(text) : text[k].section = SectionOrder[j]}
           IN /\ own # {}
              /\ \A k \in own : text[k].heading <=> (\A o \in own : k <= o)

\* value clipped to [0,100]
Clipped(value) == IF value < 0 THEN 0 ELSE IF value > 100 THEN 100 ELSE value

\* entry a of the feature vector comes before entry b in the list of
\* contributing factors: larger clipped value, or equal and earlier
RanksBefore(features, a, b) ==
    \/ Clipped(features[a].value) > Clipped(features[b].value)
    \/ Clipped(features[a].value) = Clipped(features[b].value) /\ a < b

\* the contributing factors of a text are those of the entries `numeric` of
\* the feature vector: the min(5, n) largest by clipped value, largest first,
\* equal values in the order of the vector
FactorsAre(features, numeric, out) ==
    LET shown == out.top_indicators
        rank(a) == 1 + Cardinality({b \in numeric : RanksBefore(features, b, a)})
    IN /\ Len(shown) = Min2(5, Cardinality(numeric))
       /\ \A a \in numeric :
              rank(a) <= 5 =>
                  shown[rank(a)] = [indicator |-> features[a].name,
                                    value |-> Clipped(features[a].value)]
       /\ LET lines == SelectSeq(out.text,
                                 LAMBDA l : l.section = "Contributing Factors" /\ ~l.heading)
          IN /\ Len(lines) = Len(shown)
             /\ \A k \in 1..Len(lines) : lines[k].item = <<k, shown[k]>>

\* the entries of a feature vector that hold a number
NumericEntries(features) ==
    {a \in 1..Len(features) : features[a].kind \in {"int", "float", "npint"}}

\* the entries that hold a Python int or float
PythonNumberEntries(features) ==
    {a \in 1..Len(features) : features[a].kind \in {"int", "float"}}

\* C23: explain_alert emits banner, contributing factors, findings and
\* recommendations in this order, and the contributing factors are exactly
\* the min(5, n) numeric features with the largest values after clipping to
\* [0,100], in non-increasing order, equal values in the order of the
\* feature vector.
C23_SectionsAndTopFactors ==
    expl.called =>
        /\ SectionsInOrder(expl.out.text)
        /\ FactorsAre(expl.features, NumericEntries(expl.features), expl.out)

\* the same with the features whose values are Python numbers as the
\* numeric ones
SectionsAndTopFactorsOfPythonNumbers ==
    expl.called =>
        /\ SectionsInOrder(expl.out.text)
        /\ FactorsAre(expl.features, PythonNumberEntries(expl.features), expl.out)

----------------------------------------------------------------------------
(* The message store of the orchestrator (SpecPipeline) *)

\* a stage that sends a message has run in this step: every stage but the
\* Response stage, whose outcome is returned and not sent
StageSentMessage ==
    /\ Len(invoked') = Len(invoked) + 1
    /\ invoked'[Len(invoked')] # "response-agent"

\* C24: the message store only grows, by the one message of each sending
\* stage, and a stored message is never changed or removed, so that its
\* length is the number of messages sent since construction; a run that
\* returns NORMAL has added exactly 2 messages, a run that returns
\* THREATS_DETECTED exactly 4, and the pipeline_messages of a threat result
\* and the messages_processed of get_system_status equal that length.
C24_MessageStoreAppendOnly ==
    [][/\ IsPrefix(message_queue, message_queue')
       /\ Len(message_queue') = Len(message_queue) + (IF StageSentMessage THEN 1 ELSE 0)
       /\ get_system_status'.messages_processed = Len(message_queue')
       /\ (pc # "idle" /\ pc' = "idle") =>
             /\ message_queue' = message_queue
             /\ result'.status = "NORMAL" => Len(message_queue') = run.first + 2
             /\ result'.status = "THREATS_DETECTED" =>
                   /\ Len(message_queue') = run.first + 4
                   /\ result'.pipeline_messages = Len(message_queue')]_vars

\* a threat run that has returned after an earlier run, its result counting
\* the messages of both
C24_Witness ==
    /\ Returned
    /\ runs = 2
    /\ run.first > 0
    /\ result.status = "THREATS_DETECTED"
    /\ result.pipeline_messages = run.first + 4
    /\ get_system_status.messages_processed = run.first + 4

----------------------------------------------------------------------------
(* The Detection stage and the severity classifier (SpecPipeline) *)

\* the Detection stage of the current run is over
DetectionDone == \E k \in 1..Len(invoked) : invoked[k] = "detect-agent"

\* C25: with precomputed anomaly scores, sample i is emitted as a detection
\* exactly when classify_anomaly with its default thresholds rates its score
\* WARNING or CRITICAL, and the detection's severity tag is that rating, the
\* scores 0.7 and 0.9 included.
C25_DetectionAgreesWithClassifyAnomaly ==
    (DetectionDone /\ run.anomaly_scores.given) =>
        \A i \in 1..Len(run.anomaly_scores.scores) :
            LET rating == classify_anomaly(run.anomaly_scores.scores[i], critical_threshold,
                                           warning_threshold).severity
                emitted == {k \in 1..Len(run.detections) : run.detections[k].index = i - 1}
            IN /\ (emitted # {}) <=> (rating \in {"WARNING", "CRITICAL"})
               /\ \A k \in emitted : run.detections[k].severity = rating

----------------------------------------------------------------------------
(* Items of a threat run, stage by stage (SpecPipeline) *)

\* C26: in a run that returns THREATS_DETECTED the detections, the
\* classifications, the explanations, the response actions and the alerts
\* are equally many, total_threats is that number, and the i-th
\* classification, explanation, action and alert all come from the i-th
\* detection: no stage drops, repeats or reorders an item.
C26_OneItemPerDetectionInOrder ==
    (Returned /\ result.status = "THREATS_DETECTED") =>
        LET n == Len(run.detections)
            response == result.response
        IN /\ n > 0
           /\ Len(run.classifications) = n
           /\ Len(run.explanations) = n
           /\ Len(response.actions) = n
           /\ Len(response.alerts) = n
           /\ response.total_threats = n
           /\ \A i \in 1..n :
                  LET classification == run.classifications[i]
                      explanation == run.explanations[i]
                      expected == _classify_single(run.detections[i], run.features)
                  IN /\ classification.detection = run.detections[i]
                     /\ classification.attack_type = expected.type
                     /\ classification.confidence = expected.confidence
                     /\ explanation.attack_type = classification.attack_type
                     /\ explanation.confidence = classification.confidence
                     /\ explanation.explanation[3] = classification.indicators
                     /\ response.actions[i].alert_type = explanation.attack_type
                     /\ response.actions[i].confidence = explanation.confidence
                     /\ response.actions[i].severity = explanation.severity
                     /\ response.actions[i].explanation = explanation.explanation
                     /\ response.alerts[i].type = explanation.attack_type
                     /\ response.alerts[i].confidence = explanation.confidence
                     /\ response.alerts[i].severity = explanation.severity

\* a returned threat run with two detections of different attack types
C26_Witness ==
    /\ Returned
    /\ result.status = "THREATS_DETECTED"
    /\ Len(run.detections) = 2
    /\ result.response.actions[1].alert_type # result.response.actions[2].alert_type

----------------------------------------------------------------------------
(* Labels within reach of the default threshold (SpecClassifier) *)

AllRulesHold(features, attack) == \A r \in RulesOf(attack) : RuleHolds(features, r)

\* C27: with the default confidence_threshold 0.6, classify returns no
\* specific label but 'Port Scan', and that only when all three of its rules
\* match, and 'DoS Attack', and that only when both of its rules match; the
\* score of every other attack type is at most 48, and the confidence is at
\* most 0.78.
C27_OnlyPortScanAndDoSReachable ==
    (cls.called /\ cls.threshold = confidence_threshold) =>
        /\ cls.out.attack_type \in {"Port Scan", "DoS Attack", "Unknown Attack"}
        /\ cls.out.attack_type = "Port Scan" => AllRulesHold(cls.features, "Port Scan")
        /\ cls.out.attack_type = "DoS Attack" => AllRulesHold(cls.features, "DoS Attack")
        /\ \A a \in AttackTypes \ {"Port Scan", "DoS Attack"} : cls.out.details[a] <= 48
        /\ cls.out.confidence <= 78

\* a call with the default threshold on a vector that satisfies every high
\* and very_high rule: Port Scan at 0.78, DoS Attack matched in full as well,
\* and another attack type at its highest score
C27_Witness ==
    /\ cls.called
    /\ cls.threshold = confidence_threshold
    /\ cls.out.attack_type = "Port Scan"
    /\ cls.out.confidence = 78
    /\ AllRulesHold(cls.features, "DoS Attack")
    /\ cls.out.details["Brute Force"] = 48

----------------------------------------------------------------------------
(* Batches of a single sample (SpecDetector) *)

\* 1 up to epsilon: the cell of the grid just below 1
AlmostOne == SCALE - 1

\* the detectors that produced output for the batch of the recorded call
\* with a positive raw score for its first sample
PositiveDetectors == {d \in Producing : RawScoresOf(d)[1].v > 0}

\* the recorded call returned the scores of a batch of a single sample
SingleSampleCall == ens.called /\ ~ens.raised /\ Len(ens.X) = 1

----------------------------------------------------------------------------
(* Severities along a run with precomputed scores (SpecPipeline) *)

\* C29: in a threat run that was given precomputed anomaly scores, the
\* severity of every response action, which the Explanation stage derives
\* from the classification confidence, is the severity tag the Detection
\* stage put on the corresponding detection, and is CRITICAL or WARNING,
\* never INFO; every classification confidence lies in [0,1].
C29_ActionSeverityIsDetectionSeverity ==
    (Returned /\ result.status = "THREATS_DETECTED" /\ run.anomaly_scores.given) =>
        /\ Len(result.response.actions) = Len(run.detections)
        /\ \A i \in 1..Len(run.detections) :
               /\ result.response.actions[i].severity = run.detections[i].severity
               /\ result.response.actions[i].severity \in {"CRITICAL", "WARNING"}
               /\ 0 <= run.classifications[i].confidence
               /\ run.classifications[i].confidence <= SCALE

\* a returned run whose scores gave a CRITICAL detection with a capped
\* confidence next to a WARNING detection
C29_Witness ==
    /\ Returned
    /\ result.status = "THREATS_DETECTED"
    /\ run.anomaly_scores.given
    /\ \E i \in 1..Len(run.detections) :
           /\ run.detections[i].anomaly_score > 95
           /\ run.classifications[i].confidence = SCALE
           /\ result.response.actions[i].severity = "CRITICAL"
    /\ \E i \in 1..Len(run.detections) : result.response.actions[i].severity = "WARNING"

----------------------------------------------------------------------------
(* Small packet batches without precomputed scores (SpecPipeline) *)

\* every packet of the batch has the same size
OneSize(packets) ==
    \A i, j \in 1..Len(packets) : PacketSizes(packets)[i] = PacketSizes(packets)[j]

\* every batch of up to ten packets with sizes 1 and 5, in every order
SmallPacketBatches ==
    UNION {[1..n -> {Packet("TCP", 1), Packet("TCP", 5)}] : n \in 0..10}

\* the Detection stage finds nothing in any of them
SmallBatchesYieldNoDetection ==
    \A packets \in SmallPacketBatches :
        process_data(packets, <<>>, NoScores).content.detections = <<>>

\* C30: when process_threat is given no precomputed scores, a batch of ten
\* packets or fewer yields no detection, whatever the packet sizes, and so
\* does a batch whose packets all have the same size; the run then ends with
\* the NORMAL result.
C30_SmallBatchNeverDetects ==
    /\ SmallBatchesYieldNoDetection
    /\ (/\ DetectionDone
        /\ ~run.anomaly_scores.given
        /\ (Len(run.packets) <= 10 \/ OneSize(run.packets)))
       => /\ run.detections = <<>>
          /\ Returned => result.status = "NORMAL"

\* a returned run on ten packets, one of them far larger than the other nine
C30_Witness ==
    /\ Returned
    /\ ~run.anomaly_scores.given
    /\ Len(run.packets) = 10
    /\ ~OneSize(run.packets)
    /\ result.status = "NORMAL"

====
